---- MODULE Spec2Model ----
(***************************************************************************)
(* Model of the map-sketch collaboration substrate:                        *)
(*   - the room relay, CollabHandler.java (one handler thread per          *)
(*     session, the steps of a handler interleave with other sessions');   *)
(*   - the browser client, shadow/app.js (createCollab, the feature store  *)
(*     `drawn`, the undo/redo history).                                    *)
(* SpecRelay explores the relay under thread interleaving.  SpecCollab     *)
(* explores the clients connected through the relay.  SpecInbound explores *)
(* one connected page whose transport delivers the messages of a peer      *)
(* that runs other software.  SpecHistory explores one page, not           *)
(* connected, whose undo history is short, nearly full or full.            *)
(***************************************************************************)
EXTENDS Integers, Sequences, FiniteSets, TLC

\* ------------------------------------------------------------------ bounds
NumSessions == 2
MaxMsgs == 3

Sessions == 1..NumSessions
\* A key set is allocated by a first message only, so MaxMsgs ids suffice.
SetIds == 1..MaxMsgs

\* ------------------------------------------------------- relay: constants
DefaultRoom == "default"
RoomFields == {"A"}
Absent == "absent"
RoomNames == RoomFields \cup {DefaultRoom}
NoRoom == "noroom"
NoSet == 0
NoMsg == [from |-> 0, first |-> FALSE, room |-> Absent, ok |-> FALSE]

\* A text message as the relay sees it: the sending session, whether it is
\* that session's first message, the value of its room field and whether the
\* payload parses as JSON.
Messages ==
  [from : Sessions, first : BOOLEAN, room : RoomFields \cup {Absent}, ok : {TRUE}]
    \cup [from : Sessions, first : BOOLEAN, room : {Absent}, ok : {FALSE}]

VARIABLES
  conn,         \* relay: session -> "open" | "closed" (isOpen)
  rooms,        \* relay: room name -> id of its session set, or NoSet
  heap,         \* relay: set id -> the sessions in that key set
  nextSet,      \* relay: number of key sets allocated so far
  sessionRoom,  \* relay: session -> room name, or NoRoom
  th,           \* relay: session -> the handler running for it
  total,        \* relay: number of messages received so far
  spoke,        \* relay: session -> the room of its first message, if any
                \*        (history; kept when the session closes)
  closeDone,    \* relay: sessions whose afterConnectionClosed has returned
  cl,           \* client: client -> the state of its page (app.js)
  inbox,        \* session -> messages sent by the relay, not yet dispatched
  owner,        \* session -> the client whose WebSocket it is (0: none yet)
  ops           \* number of user operations and transport drops so far

relayVars == <<conn, rooms, heap, nextSet, sessionRoom, th, total, spoke,
               closeDone>>

clientVars == <<cl, owner, inbox, ops>>

vars == <<relayVars, clientVars>>

\* A handler: where it is, the message and room it works on, the key set it
\* holds, the place of its iterator, the last session it called sendMessage
\* for and the last one for which sendMessage threw (0: none).
Idle == [pc |-> "idle", msg |-> NoMsg, room |-> NoRoom, set |-> NoSet,
         cursor |-> 0, last |-> 0, failedAt |-> 0]

\* String room = root.has("room") ? root.get("room").asText() : "default";
RoomOf(m) == IF m.room = Absent THEN DefaultRoom ELSE m.room

\* The contents of a key set reference (Collections.emptySet() for NoSet).
Members(id) == IF id = NoSet THEN {} ELSE heap[id]

\* The relay after construction; the sessions are connected
\* (afterConnectionEstablished registers nothing) and have sent nothing.
RelayInit ==
  /\ conn = [s \in Sessions |-> "open"]
  /\ rooms = [r \in RoomNames |-> NoSet]
  /\ heap = [i \in SetIds |-> {}]
  /\ nextSet = 0
  /\ sessionRoom = [s \in Sessions |-> NoRoom]
  /\ th = [s \in Sessions |-> Idle]
  /\ total = 0
  /\ spoke = [s \in Sessions |-> NoRoom]
  /\ closeDone = {}
  /\ cl = <<>> /\ owner = <<>> /\ inbox = <<>> /\ ops = 0

\* The transport of a session closes (the peer went away, or the container
\* closed it); isOpen() is false from here on.  (The close of a session that
\* never sent a message touches no map and is left out.)
TransportClose(s) ==
  /\ conn[s] = "open"
  /\ spoke[s] # NoRoom
  /\ conn' = [conn EXCEPT ![s] = "closed"]
  /\ UNCHANGED <<rooms, heap, nextSet, sessionRoom, th, total, spoke, closeDone,
               clientVars>>

\* The room whose session set a broadcast iterates: handleTextMessage passes
\* the room parsed from the message in hand.
BroadcastRoomOfSession(s, m) == sessionRoom[s]
BroadcastRoom(s, m) == RoomOf(m)

\* Set targets = rooms.getOrDefault(room, Collections.emptySet()), and the
\* creation of the (weakly consistent) iterator over it.
StartBroadcast(s, m) ==
  LET id == rooms[BroadcastRoom(s, m)] IN
    [Idle EXCEPT !.pc = "iterate", !.msg = m, !.room = RoomOf(m), !.set = id]

\* sessionRoom.computeIfAbsent(session, ..): the mapping function, which
\* registers the session, runs only when the session has no entry.
RegistersOnRoomChange(s, m) == sessionRoom[s] # RoomOf(m)
Registers(s, m) == sessionRoom[s] = NoRoom

\* mapper.readTree(message.getPayload()) throws JsonProcessingException on a
\* payload that is not JSON; handleTextMessage does not catch it
readTreeThrows(m) == ~m.ok

\* handleTextMessage up to its first access to the shared maps.  readTree
\* throws on a payload that is not JSON: the exception leaves the handler and
\* the container's exception decorator closes the session.  Otherwise the
\* room is read; when the session has to be registered
\* rooms.computeIfAbsent(room, r -> newKeySet()) runs, else broadcast starts.
handleTextMessage(s, m) ==
  /\ conn[s] = "open"
  /\ th[s].pc = "idle"
  /\ total < MaxMsgs
  /\ m.from = s /\ m.first = (spoke[s] = NoRoom)
  /\ total' = total + 1
  /\ spoke' = [spoke EXCEPT ![s] = IF @ = NoRoom /\ m.ok THEN RoomOf(m) ELSE @]
  /\ IF ~m.ok
       THEN /\ conn' = [conn EXCEPT ![s] = "closed"]
            /\ UNCHANGED <<th, rooms, nextSet>>
       ELSE /\ UNCHANGED conn
            /\ IF ~Registers(s, m)
                 THEN /\ th' = [th EXCEPT ![s] = StartBroadcast(s, m)]
                      /\ UNCHANGED <<rooms, nextSet>>
                 ELSE LET r == RoomOf(m)
                          id == IF rooms[r] = NoSet THEN nextSet + 1 ELSE rooms[r]
                      IN /\ rooms' = [rooms EXCEPT ![r] = id]
                         /\ nextSet' = IF rooms[r] = NoSet THEN nextSet + 1 ELSE nextSet
                         /\ th' = [th EXCEPT ![s] =
                              [Idle EXCEPT !.pc = "join_add", !.msg = m,
                                           !.room = r, !.set = id]]
  /\ UNCHANGED <<heap, sessionRoom, closeDone,
               clientVars>>

\* .add(session) on the set computeIfAbsent returned, then `return room`:
\* sessionRoom gets its entry for the session.
JoinAdd(s) ==
  /\ th[s].pc = "join_add"
  /\ heap' = [heap EXCEPT ![th[s].set] = @ \cup {s}]
  /\ sessionRoom' = [sessionRoom EXCEPT ![s] = th[s].room]
  /\ th' = [th EXCEPT ![s].pc = "broadcast"]
  /\ UNCHANGED <<conn, rooms, nextSet, total, spoke, closeDone,
               clientVars>>

\* broadcast(room, payload) of a message that registered the session.
broadcast(s) ==
  /\ th[s].pc = "broadcast"
  /\ th' = [th EXCEPT ![s] = StartBroadcast(s, th[s].msg)]
  /\ UNCHANGED <<conn, rooms, heap, nextSet, sessionRoom, total, spoke, closeDone,
               clientVars>>

\* The iterator of a concurrent key set is weakly consistent: it walks the
\* hash table once, in table order, and an element added or removed during
\* the walk is seen exactly when the walk has not passed its place yet.
\* Sessions are numbered in table order; cursor is the last place visited.
\* The loop body does nothing for a target that is not open, so the walk
\* steps from one open member to the next.
Open(S) == {t \in S : conn[t] = "open"}
Candidates(s) == {t \in Open(Members(th[s].set)) : t > th[s].cursor}

\* Whether the loop body skips target t of a broadcast by session s.
SkipsSender(s, t) == t = s
Skips(s, t) == FALSE

\* Where the loop goes once sendMessage has thrown IOException.
AbortOnFailure(pc) == "finish"
AfterFailure(pc) == pc

\* One pass of the loop body for target t:
\*   if (s.isOpen()) { try { s.sendMessage(..) } catch (IOException ignored) {} }
\* ok is the outcome of sendMessage.
BroadcastSend(s, t, ok) ==
  /\ th[s].pc = "iterate"
  /\ t \in Candidates(s) /\ \A u \in Candidates(s) : t <= u
  /\ IF ~Skips(s, t)
       THEN th' = [th EXCEPT ![s].cursor = t,
                             ![s].last = t,
                             ![s].failedAt = IF ok THEN @ ELSE t,
                             ![s].pc = IF ok THEN @ ELSE AfterFailure(@)]
       ELSE /\ ok
            /\ th' = [th EXCEPT ![s].cursor = t]
  /\ UNCHANGED <<conn, rooms, heap, nextSet, sessionRoom, total, spoke, closeDone,
               clientVars>>

\* The loop ends and handleTextMessage returns.
BroadcastEnd(s) ==
  /\ th[s].pc \in {"iterate", "finish"}
  /\ th[s].pc = "iterate" => Candidates(s) = {}
  /\ th' = [th EXCEPT ![s] = Idle]
  /\ UNCHANGED <<conn, rooms, heap, nextSet, sessionRoom, total, spoke, closeDone,
               clientVars>>

\* afterConnectionClosed up to its first access to rooms:
\*   String room = sessionRoom.remove(session);
\*   if (room != null) { Set set = rooms.get(room); if (set != null) ..
\* The container calls it once per session, after the transport has closed
\* and when no other handler of the same session is running.
afterConnectionClosed(s) ==
  /\ conn[s] = "closed"
  /\ th[s].pc = "idle"
  /\ s \notin closeDone
  /\ sessionRoom' = [sessionRoom EXCEPT ![s] = NoRoom]
  /\ IF sessionRoom[s] = NoRoom \/ rooms[sessionRoom[s]] = NoSet
       THEN /\ closeDone' = closeDone \cup {s}
            /\ UNCHANGED th
       ELSE /\ th' = [th EXCEPT ![s] =
                 [Idle EXCEPT !.pc = "close_remove", !.room = sessionRoom[s],
                              !.set = rooms[sessionRoom[s]]]]
            /\ UNCHANGED closeDone
  /\ UNCHANGED <<conn, rooms, heap, nextSet, total, spoke,
               clientVars>>

\* set.remove(session)
CloseRemove(s) ==
  /\ th[s].pc = "close_remove"
  /\ heap' = [heap EXCEPT ![th[s].set] = @ \ {s}]
  /\ th' = [th EXCEPT ![s].pc = "close_empty"]
  /\ UNCHANGED <<conn, rooms, nextSet, sessionRoom, total, spoke, closeDone,
               clientVars>>

\* Whether afterConnectionClosed goes on to drop the room entry.
NeverPrunes(members) == FALSE
PrunesWhen(members) == members = {}

\* if (set.isEmpty()) ...
CloseIsEmpty(s) ==
  /\ th[s].pc = "close_empty"
  /\ IF PrunesWhen(heap[th[s].set])
       THEN /\ th' = [th EXCEPT ![s].pc = "close_prune"]
            /\ UNCHANGED closeDone
       ELSE /\ th' = [th EXCEPT ![s] = Idle]
            /\ closeDone' = closeDone \cup {s}
  /\ UNCHANGED <<conn, rooms, heap, nextSet, sessionRoom, total, spoke,
               clientVars>>

\* rooms.remove(room): drops whatever set the name maps to by now.
ClosePrune(s) ==
  /\ th[s].pc = "close_prune"
  /\ rooms' = [rooms EXCEPT ![th[s].room] = NoSet]
  /\ th' = [th EXCEPT ![s] = Idle]
  /\ closeDone' = closeDone \cup {s}
  /\ UNCHANGED <<conn, heap, nextSet, sessionRoom, total, spoke,
               clientVars>>

RelayNext ==
  \E s \in Sessions :
    \/ TransportClose(s)
    \/ \E m \in Messages : handleTextMessage(s, m)
    \/ JoinAdd(s)
    \/ broadcast(s)
    \/ \E t \in Sessions, ok \in BOOLEAN : BroadcastSend(s, t, ok)
    \/ BroadcastEnd(s)
    \/ afterConnectionClosed(s)
    \/ CloseRemove(s)
    \/ CloseIsEmpty(s)
    \/ ClosePrune(s)

SpecRelay == RelayInit /\ [][RelayNext]_vars

\* ------------------------------------------------------- relay: claims

\* the handlers that are in the loop of broadcast and have called sendMessage
Sending == {s \in Sessions : th[s].pc = "iterate" /\ th[s].last # 0}

\* C1 (room isolation): a message whose room field is A is never sent to a
\* session that sessionRoom binds to a different room B.
RoomIsolation ==
  \A s \in Sending :
    sessionRoom[th[s].last] \in {NoRoom, RoomOf(th[s].msg)}

\* A message is delivered in one room while an open session is bound to
\* another room.
RoomIsolationWitness ==
  \E s \in Sending :
    /\ th[s].failedAt # th[s].last
    /\ \E u \in Sessions : /\ conn[u] = "open"
                           /\ sessionRoom[u] \notin {NoRoom, RoomOf(th[s].msg)}

\* C2 as stated (sender exclusion): the session a message was received from
\* is never among the recipients of its broadcast.
SenderExcluded ==
  \A s \in Sending : th[s].last # s

\* C2 amended: the recipients are the open sessions in the set of the
\* message's room, the sender included: when the walk of a broadcast comes
\* to the sender itself, sendMessage is called for the sender with the
\* message it sent.
SenderIsRecipient ==
  [][\A s \in Sessions :
       (th[s].pc = "iterate" /\ th'[s].cursor = s /\ th[s].cursor # s)
         => (th'[s].last = s /\ th'[s].msg = th[s].msg /\ th'[s].msg.from = s)]_vars

\* A message has been sent back to the session it came from while another
\* open session is in the same room.
SenderIsRecipientWitness ==
  \E s \in Sending :
    /\ th[s].last = s /\ th[s].failedAt # s
    /\ \E u \in Sessions \ {s} :
         conn[u] = "open" /\ sessionRoom[u] = sessionRoom[s]

\* C3 as stated (stale-room routing): a later message of a session bound to
\* room R goes to members of R, whatever its room field says.
StaleRoomRouting ==
  \A s \in Sending :
    ~th[s].msg.first => sessionRoom[th[s].last] \in {NoRoom, sessionRoom[s]}

\* C3 amended: the session stays bound to the room of its first message, but
\* a later message is routed by its own room field: every recipient is bound
\* to the room that message names (until its own close unbinds it).
LaterMessageRoutedByField ==
  \A s \in Sending :
    ~th[s].msg.first
      => /\ sessionRoom[th[s].last] \in {NoRoom, RoomOf(th[s].msg)}
         /\ sessionRoom[s] = spoke[s]

\* A later message naming another room than the sender's is delivered there.
LaterMessageWitness ==
  \E s \in Sending :
    /\ ~th[s].msg.first /\ th[s].failedAt # th[s].last
    /\ sessionRoom[s] # NoRoom
    /\ RoomOf(th[s].msg) # sessionRoom[s]
    /\ sessionRoom[th[s].last] = RoomOf(th[s].msg)

\* C4 (at most one room): a session is in at most one key set; it is added
\* to a set, and sessionRoom gets its entry, only while its first message is
\* handled, with that message's room ("default" when absent); afterwards the
\* entry only disappears (on close).
AtMostOneRoom ==
  [][\A s \in Sessions :
       /\ Cardinality({i \in SetIds : s \in heap'[i]}) <= 1
       /\ \A i \in SetIds : (s \in heap'[i] /\ s \notin heap[i]) => th[s].msg.first
       /\ sessionRoom'[s] # sessionRoom[s] =>
            \/ sessionRoom'[s] = NoRoom
            \/ /\ sessionRoom[s] = NoRoom
               /\ th[s].msg.first
               /\ sessionRoom'[s] = RoomOf(th[s].msg)
               /\ th[s].msg.room = Absent => sessionRoom'[s] = DefaultRoom]_vars

\* A session bound to "default" by a first message without room field is
\* having a later message naming another room broadcast, and is still bound
\* to "default" only.
AtMostOneRoomWitness ==
  \E s \in Sessions :
    /\ th[s].pc = "iterate" /\ ~th[s].msg.first
    /\ sessionRoom[s] = DefaultRoom
    /\ RoomOf(th[s].msg) # DefaultRoom
    /\ \A i \in SetIds : s \in heap[i] => rooms[DefaultRoom] = i

\* The sessions that registered in room r (their first message named it).
Registered(r) == {s \in Sessions : spoke[s] = r}

\* C5 (room cleanup): once afterConnectionClosed has returned for every
\* session that registered in room R, rooms has no entry for R and
\* sessionRoom none for those sessions.
RoomCleanup ==
  \A r \in RoomNames :
    (Registered(r) # {} /\ Registered(r) \subseteq closeDone)
      => /\ rooms[r] = NoSet
         /\ \A s \in Registered(r) : sessionRoom[s] = NoRoom

\* Two sessions registered in the same room and both have been closed.
RoomCleanupWitness ==
  \E r \in RoomNames :
    /\ Cardinality(Registered(r)) >= 2
    /\ Registered(r) \subseteq closeDone

\* C6 (per-recipient failure isolation): a sendMessage that throws does not
\* end the loop and does not leave the handler: the handler in whose
\* broadcast a send has failed is still in the loop, which ends only when no
\* open member of the set is left to visit.
FailureIsolation ==
  \A s \in Sessions :
    th[s].failedAt # 0
      => /\ th[s].pc = "iterate"
         /\ th[s].last >= th[s].failedAt

\* A send succeeds in a broadcast in which an earlier send has failed.
FailureIsolationWitness ==
  \E s \in Sending :
    th[s].failedAt # 0 /\ th[s].last > th[s].failedAt


\* ------------------------------------------------------------ client (app.js)
\* One page per client: the feature store (the `drawn` group), the style
\* controls, the undo/redo history and the collaboration object.  Handlers are
\* operators from the page state to the page state; what a handler sends is
\* collected in `out` and reaches the relay when the handler returns.

Clients == {1, 2}

MaxOps == 3                     \* user gestures and transport drops per run

NoId == <<0, 0>>                \* no `_id`; the id <<c, n>> is c's n-th uuid
NoStyle == 0                    \* a marker without `_am` (default icon)
None == 0                       \* selected = null, ws = null
Detached == 0 - 1               \* selected refers to a layer no longer stored
Geoms == {1, 2}
AsDrawn == 1                    \* the geometry a gesture draws; edits change it
Styles == {1, 2}
PmKinds == {"Point", "Polygon"}
Controls == {"strokeColor", "markerIcon"}
FeatureTypes == {"feature:add", "feature:edit", "feature:remove"}

\* label: the feature's tooltip content.  A page binds text only (applyText
\* trims an input's value); a peer's message may carry a label that is not
\* text, which bindTooltip(..).openTooltip() cannot render: it throws.
NoLabel == "none"
NotText == "nottext"

NoFeature == [kind |-> "none", geom |-> 0, style |-> NoStyle, id |-> NoId,
              label |-> NoLabel]

IsPolyline(kind) == kind \in {"LineString", "Polygon"}

OtherGeom(g) == CHOOSE h \in Geoms : h # g

Page ==
  [room |-> "", ws |-> None, connected |-> FALSE, participants |-> {},
   drawn |-> <<>>, selected |-> None, ui |-> [stroke |-> 1, icon |-> 1],
   undoStack |-> << <<>> >>, redoStack |-> <<>>, isRestoring |-> FALSE,
   isRemoteApplying |-> FALSE, timer |-> FALSE, nextId |-> 0, out |-> <<>>]

CollabInit ==
  /\ conn = [s \in Sessions |-> "none"]
  /\ rooms = [r \in RoomNames |-> NoSet]
  /\ heap = [i \in SetIds |-> {}]
  /\ nextSet = 0
  /\ sessionRoom = [s \in Sessions |-> NoRoom]
  /\ th = [s \in Sessions |-> Idle]
  /\ total = 0
  /\ spoke = [s \in Sessions |-> NoRoom]
  /\ closeDone = {}
  /\ cl = [c \in Clients |-> Page]
  /\ owner = [s \in Sessions |-> None]
  /\ inbox = [s \in Sessions |-> <<>>]
  /\ ops = 0

RemoveAt(seq, i) == SubSeq(seq, 1, i - 1) \o SubSeq(seq, i + 1, Len(seq))

\* the selection after the layer at index i left the store
SelectedAfterRemove(sel, i) ==
  IF sel = i THEN Detached ELSE IF sel > i THEN sel - 1 ELSE sel

selectLayer(st, i) ==
  [st EXCEPT !.selected = i,
             !.ui.stroke = IF IsPolyline(st.drawn[i].kind)
                           THEN st.drawn[i].style ELSE @]

\* applyStyle and setMarkerIcon from the controls, on the layer at index i
applyStyle(st, i) ==
  IF IsPolyline(st.drawn[i].kind)
  THEN [st EXCEPT !.drawn[i].style = st.ui.stroke] ELSE st

setMarkerIcon(st, i) ==
  IF st.drawn[i].kind = "Point"
  THEN [st EXCEPT !.drawn[i].style = st.ui.icon] ELSE st

\* layer.toGeoJSON() of every stored layer: a layer made by L.geoJSON keeps
\* its feature (and the properties object, `_id` included); a drawn layer
\* has none and gets fresh, empty properties
collectGeoJSON(st) ==
  [i \in 1..Len(st.drawn) |->
     [kind |-> st.drawn[i].kind, geom |-> st.drawn[i].geom,
      style |-> st.drawn[i].style,
      label |-> st.drawn[i].label,
      pid |-> IF st.drawn[i].feat THEN st.drawn[i].pid ELSE NoId,
      born |-> st.drawn[i].born, was |-> st.drawn[i].id]]

HISTORY_LIMIT == 100

\* a commit that never evicts
snapshotUnbounded(st) ==
  IF st.isRestoring THEN st
  ELSE [st EXCEPT !.undoStack = Append(@, collectGeoJSON(st)),
                  !.redoStack = <<>>]

\* if(isRestoring) return; push; shift when over HISTORY_LIMIT; clear redo
snapshot(st) ==
  IF st.isRestoring THEN st
  ELSE LET pushed == Append(st.undoStack, collectGeoJSON(st))
       IN [st EXCEPT !.undoStack = IF Len(pushed) > HISTORY_LIMIT
                                   THEN Tail(pushed) ELSE pushed,
                     !.redoStack = <<>>]

\* bindTooltip(label, {permanent: true}).openTooltip() on a layer on the map
\* renders the content at once; content that is not text is appended as a
\* node, which throws.  The tooltip is bound by then.
bindTooltipThrows(label) == label = NotText

restoreThrows(geojson) ==
  \E i \in 1..Len(geojson) : bindTooltipThrows(geojson[i].label)

\* the features L.geoJSON works through: onEachFeature throws at the first
\* label it cannot render, after the layer is attached, identified and styled
Reached(geojson) ==
  IF restoreThrows(geojson)
  THEN SubSeq(geojson, 1,
              CHOOSE i \in 1..Len(geojson) :
                /\ bindTooltipThrows(geojson[i].label)
                /\ \A j \in 1..(i - 1) : ~bindTooltipThrows(geojson[j].label))
  ELSE geojson

restoreFromGeoJSON(c, st, geojson) ==
  LET done == Reached(geojson)
      fresh(i) == Cardinality({j \in 1..i : done[j].pid = NoId})
      layer(i) == [id |-> IF done[i].pid # NoId THEN done[i].pid
                          ELSE <<c, st.nextId + fresh(i)>>,
                   kind |-> done[i].kind, geom |-> done[i].geom,
                   style |-> done[i].style, label |-> done[i].label,
                   feat |-> TRUE, pid |-> done[i].pid, born |-> done[i].born,
                   onMap |-> TRUE]
  IN [st EXCEPT !.drawn = @ \o [i \in 1..Len(done) |-> layer(i)],
                !.nextId = @ + fresh(Len(done))]

\* a restore whose flag is reset on the normal exit only
loadStateNoFinally(c, st, geojson) ==
  LET cleared == [st EXCEPT !.isRestoring = TRUE, !.drawn = <<>>,
                            !.selected = IF @ = None THEN None ELSE Detached]
  IN [restoreFromGeoJSON(c, cleared, geojson)
        EXCEPT !.isRestoring = restoreThrows(geojson)]

\* a restore that commits what it restored
loadStateCommits(c, st, geojson) ==
  LET cleared == [st EXCEPT !.isRestoring = TRUE, !.drawn = <<>>,
                            !.selected = IF @ = None THEN None ELSE Detached]
  IN snapshot([restoreFromGeoJSON(c, cleared, geojson)
                 EXCEPT !.isRestoring = FALSE])

\* try { clearLayers; restoreFromGeoJSON } finally { isRestoring = false }:
\* what restoreFromGeoJSON throws leaves loadState, the flag reset
loadState(c, st, geojson) ==
  LET cleared == [st EXCEPT !.isRestoring = TRUE, !.drawn = <<>>,
                            !.selected = IF @ = None THEN None ELSE Detached]
  IN [restoreFromGeoJSON(c, cleared, geojson) EXCEPT !.isRestoring = FALSE]

canUndo(st) == Len(st.undoStack) > 1

canRedo(st) == Len(st.redoStack) > 0

\* an undo that, with nothing to undo, forgets what could be redone
undoForgetsRedo(c, st) ==
  IF ~canUndo(st) THEN [st EXCEPT !.redoStack = <<>>]
  ELSE LET n == Len(st.undoStack)
           popped == [st EXCEPT !.undoStack = SubSeq(@, 1, n - 1),
                                !.redoStack = Append(@, st.undoStack[n])]
       IN loadState(c, popped, st.undoStack[n - 1])

undo(c, st) ==
  IF ~canUndo(st) THEN st
  ELSE LET n == Len(st.undoStack)
           popped == [st EXCEPT !.undoStack = SubSeq(@, 1, n - 1),
                                !.redoStack = Append(@, st.undoStack[n])]
       IN loadState(c, popped, st.undoStack[n - 1])

redo(c, st) ==
  IF ~canRedo(st) THEN st
  ELSE LET n == Len(st.redoStack)
           moved == [st EXCEPT !.redoStack = SubSeq(@, 1, n - 1),
                               !.undoStack = Append(@, st.redoStack[n])]
       IN loadState(c, moved, st.redoStack[n])

\* undo and redo have no handler of their own: what loadState throws leaves
\* them, with the stacks already moved
undoThrows(st) ==
  canUndo(st) /\ restoreThrows(st.undoStack[Len(st.undoStack) - 1])

redoThrows(st) ==
  canRedo(st) /\ restoreThrows(st.redoStack[Len(st.redoStack)])

\* ---------------------------------------------------- client: collaboration

DefaultStroke == 1              \* '#ff4757'

ensureLayerId(c, st, i) ==
  IF st.drawn[i].id # NoId THEN st
  ELSE [st EXCEPT !.drawn[i].id = <<c, st.nextId + 1>>,
                  !.drawn[i].born = IF @ = NoId THEN <<c, st.nextId + 1>> ELSE @,
                  !.nextId = @ + 1]

\* send: nothing unless connected; ws.send on a socket that is not open
\* throws (caught) or discards
send(c, st, net, type, feature, id) ==
  IF ~st.connected THEN st
  ELSE IF st.ws = None \/ net[st.ws] # "open" THEN st
  ELSE [st EXCEPT !.out = Append(@, [type |-> type, room |-> st.room,
                                     user |-> c, feature |-> feature,
                                     id |-> id])]

\* props._id = layer.options._id || a fresh uuid (not stored on the layer)
SingleId(c, st, i) ==
  IF st.drawn[i].id # NoId THEN st.drawn[i].id ELSE <<c, st.nextId + 1>>

toSingleGeoJSON(c, st, i) ==
  [kind |-> st.drawn[i].kind, geom |-> st.drawn[i].geom,
   style |-> st.drawn[i].style, id |-> SingleId(c, st, i),
   label |-> st.drawn[i].label]

\* what toSingleGeoJSON leaves behind: a uuid drawn, and `_id` written into
\* the properties object the layer's feature shares
serialized(c, st, i) ==
  [st EXCEPT !.nextId = IF st.drawn[i].id = NoId THEN @ + 1 ELSE @,
             !.drawn[i].pid = IF st.drawn[i].feat THEN SingleId(c, st, i) ELSE @]

sendAdd(c, st, net, i) ==
  IF st.isRemoteApplying THEN st
  ELSE LET st1 == ensureLayerId(c, st, i)
       IN send(c, serialized(c, st1, i), net, "feature:add",
               toSingleGeoJSON(c, st1, i), NoId)

sendEdit(c, st, net, i) ==
  IF st.isRemoteApplying THEN st
  ELSE send(c, serialized(c, st, i), net, "feature:edit",
            toSingleGeoJSON(c, st, i), NoId)

sendRemove(c, st, net, layer) ==
  IF st.isRemoteApplying THEN st
  ELSE IF layer.id = NoId THEN st
  ELSE send(c, st, net, "feature:remove", NoFeature, layer.id)

renderPresence(c, st) == [st EXCEPT !.participants = @ \cup {c}]

\* the last stored layer with this id, 0 when there is none
findLayerById(st, id) ==
  LET hits == {i \in 1..Len(st.drawn) : st.drawn[i].id = id}
  IN IF hits = {} THEN 0 ELSE CHOOSE i \in hits : \A j \in hits : j <= i

\* p.stroke || '#ff4757': a Point feature carries an icon, not a stroke
StrokeOf(f) ==
  IF IsPolyline(f.kind) /\ f.style # NoStyle THEN f.style ELSE DefaultStroke

\* onEachFeature: attachCommon, the id, the style, then the label; when the
\* label cannot be rendered the layer is in the store by the time it throws
addFeatureFromRemote(c, st, f) ==
  LET id == IF f.id # NoId THEN f.id ELSE <<c, st.nextId + 1>>
      layer == [id |-> id, kind |-> f.kind, geom |-> f.geom,
                style |-> IF IsPolyline(f.kind) THEN StrokeOf(f) ELSE f.style,
                label |-> f.label,
                feat |-> TRUE, pid |-> f.id, born |-> id, onMap |-> TRUE]
  IN [st EXCEPT !.drawn = Append(@, layer),
                !.nextId = IF f.id # NoId THEN @ ELSE @ + 1]

\* an edit that gives up on an identifier it does not find
editKnownOnly(c, st, f) ==
  LET i == findLayerById(st, f.id)
  IN IF f.id = NoId \/ i = 0 THEN st
     ELSE [st EXCEPT
             !.drawn[i].geom = IF IsPolyline(st.drawn[i].kind) /\ IsPolyline(f.kind)
                               THEN f.geom ELSE @,
             !.drawn[i].style = IF IsPolyline(st.drawn[i].kind)
                                THEN StrokeOf(f) ELSE @,
             !.drawn[i].label = f.label]

\* a found layer: setLatLngs for a line or polygon given line or polygon
\* coordinates, setStyle for a line or polygon, the tooltip bound or unbound;
\* a marker is not moved and its icon is not set
editFeatureFromRemote(c, st, f) ==
  LET i == findLayerById(st, f.id)
  IN IF f.id = NoId \/ i = 0 THEN addFeatureFromRemote(c, st, f)
     ELSE [st EXCEPT
             !.drawn[i].geom = IF IsPolyline(st.drawn[i].kind) /\ IsPolyline(f.kind)
                               THEN f.geom ELSE @,
             !.drawn[i].style = IF IsPolyline(st.drawn[i].kind)
                                THEN StrokeOf(f) ELSE @,
             !.drawn[i].label = f.label]

removeFeatureById(st, id) ==
  LET i == findLayerById(st, id)
  IN IF i = 0 THEN st
     ELSE [st EXCEPT !.drawn = RemoveAt(@, i),
                     !.selected = SelectedAfterRemove(@, i)]

applyRemote(c, st, msg) ==
  CASE msg.type = "feature:add" /\ msg.feature # NoFeature ->
         addFeatureFromRemote(c, st, msg.feature)
    [] msg.type = "feature:edit" /\ msg.feature # NoFeature ->
         editFeatureFromRemote(c, st, msg.feature)
    [] msg.type = "feature:remove" /\ msg.id # NoId ->
         removeFeatureById(st, msg.id)
    [] OTHER -> st

\* a remote apply that also runs the local creation hooks' history commit
handleAndCommit(c, st, msg) ==
  LET seen == [st EXCEPT !.participants = @ \cup {msg.user}]
  IN IF msg.user = None THEN st
     ELSE IF msg.type \in {"hello", "presence"} THEN renderPresence(c, seen)
     ELSE IF msg.type \in FeatureTypes
     THEN snapshot([applyRemote(c, [seen EXCEPT !.isRemoteApplying = TRUE], msg)
                     EXCEPT !.isRemoteApplying = FALSE])
     ELSE seen

handle(c, st, msg) ==
  LET seen == [st EXCEPT !.participants = @ \cup {msg.user}]
  IN IF msg.user = None THEN st
     ELSE IF msg.type \in {"hello", "presence"} THEN renderPresence(c, seen)
     ELSE IF msg.type \in FeatureTypes
     THEN [applyRemote(c, [seen EXCEPT !.isRemoteApplying = TRUE], msg)
             EXCEPT !.isRemoteApplying = FALSE]
     ELSE seen

\* ws.onmessage: the parsed message is handled unless it names another room
\* (`msg.room &&`: a room field that is absent or empty is not compared) or
\* carries the page's own id
EmptyRoom == ""

wsOnmessage(c, st, msg) ==
  IF msg.room \notin {Absent, EmptyRoom} /\ msg.room # st.room THEN st
  ELSE IF msg.user = c THEN st
  ELSE handle(c, st, msg)

\* ------------------------------------------- the relay between the clients
\* handleTextMessage and afterConnectionClosed, each run to completion.  The
\* relay state a handler works on is the record R; net is the transport state.

RelayState == [rooms |-> rooms, heap |-> heap, sessionRoom |-> sessionRoom,
               inbox |-> inbox]

received(R, net, s, payload) ==
  LET room == IF payload.room = Absent THEN DefaultRoom ELSE payload.room
      joins == R.sessionRoom[s] = NoRoom
      free == CHOOSE i \in SetIds :
                R.heap[i] = {} /\ \A r \in RoomNames : R.rooms[r] # i
      id == IF R.rooms[room] = NoSet THEN free ELSE R.rooms[room]
      rooms1 == IF joins THEN [R.rooms EXCEPT ![room] = id] ELSE R.rooms
      heap1 == IF joins THEN [R.heap EXCEPT ![id] = @ \cup {s}] ELSE R.heap
      set == IF rooms1[room] = NoSet THEN {} ELSE heap1[rooms1[room]]
      targets == {t \in set : net[t] = "open"}
  IN [rooms |-> rooms1,
      heap |-> heap1,
      sessionRoom |-> IF joins THEN [R.sessionRoom EXCEPT ![s] = room]
                      ELSE R.sessionRoom,
      inbox |-> [t \in Sessions |->
                   IF t \in targets THEN Append(R.inbox[t], payload)
                   ELSE R.inbox[t]]]

RECURSIVE receivedAll(_, _, _, _)
receivedAll(R, net, s, msgs) ==
  IF msgs = <<>> THEN R
  ELSE receivedAll(received(R, net, s, Head(msgs)), net, s, Tail(msgs))

relayClosed(s) ==
  /\ conn[s] \in {"closing", "closed", "failing", "failed"}
  /\ s \notin closeDone
  /\ closeDone' = closeDone \cup {s}
  /\ sessionRoom' = [sessionRoom EXCEPT ![s] = NoRoom]
  /\ LET room == sessionRoom[s]
     IN IF room = NoRoom \/ rooms[room] = NoSet
        THEN UNCHANGED <<rooms, heap>>
        ELSE LET left == heap[rooms[room]] \ {s}
             IN /\ heap' = [heap EXCEPT ![rooms[room]] = left]
                /\ rooms' = IF PrunesWhen(left)
                            THEN [rooms EXCEPT ![room] = NoSet] ELSE rooms
  /\ UNCHANGED <<conn, nextSet, th, total, spoke, clientVars>>

\* ------------------------------------------------------- client: transitions

\* a handler returns: its page state is stored, and the relay has received
\* what it sent on its transport and queued it for the sessions of the room
Return(c, st, R, net) ==
  /\ cl' = [cl EXCEPT ![c] = [st EXCEPT !.out = <<>>]]
  /\ LET after == receivedAll(R, net, st.ws, st.out)
     IN /\ rooms' = after.rooms
        /\ heap' = after.heap
        /\ sessionRoom' = after.sessionRoom
        /\ inbox' = after.inbox

UserOp == ops < MaxOps /\ ops' = ops + 1

relayIdle == UNCHANGED <<nextSet, th, total, spoke>>

roomsIdle == UNCHANGED <<rooms, heap, sessionRoom>>

netIdle == UNCHANGED <<conn, closeDone, owner>>

\* a close() that the transport ignores
CloseIgnored(state) == state

\* ws.close() as the transport sees it: the socket leaves OPEN at once, and a
\* socket that is not OPEN fires no message event, also not for what it had
\* received already
CloseCalled(state) ==
  CASE state = "connecting" -> "aborted"
    [] state = "open" -> "closing"
    [] OTHER -> state

connect(c, r) ==
  /\ UserOp
  /\ \E s \in Sessions :
       /\ conn[s] = "none"
       /\ \A t \in Sessions : conn[t] = "none" => s <= t
       /\ LET old == cl[c].ws
          IN /\ conn' = [t \in Sessions |->
                           IF t = s THEN "connecting"
                           ELSE IF t = old THEN CloseCalled(conn[t])
                           ELSE conn[t]]
             /\ inbox' = [t \in Sessions |-> IF t = old THEN <<>> ELSE inbox[t]]
       /\ owner' = [owner EXCEPT ![s] = c]
       /\ cl' = [cl EXCEPT ![c].room = r, ![c].ws = s]
  /\ relayIdle /\ roomsIdle /\ UNCHANGED closeDone

disconnect(c) ==
  /\ UserOp
  /\ cl[c].ws # None
  /\ conn' = [conn EXCEPT ![cl[c].ws] = CloseCalled(@)]
  /\ inbox' = [inbox EXCEPT ![cl[c].ws] = <<>>]
  /\ cl' = [cl EXCEPT ![c].ws = None, ![c].connected = FALSE]
  /\ relayIdle /\ roomsIdle /\ UNCHANGED <<closeDone, owner>>

\* an onopen that announces presence before it says hello
onopenPresenceFirst(s) ==
  /\ conn[s] = "connecting"
  /\ conn' = [conn EXCEPT ![s] = "open"]
  /\ LET c == owner[s]
         st == [cl[c] EXCEPT !.connected = TRUE]
         presence == send(c, st, conn', "presence", NoFeature, NoId)
         hello == send(c, presence, conn', "hello", NoFeature, NoId)
     IN Return(c, renderPresence(c, hello), RelayState, conn')
  /\ relayIdle /\ UNCHANGED <<closeDone, owner, ops>>

\* an onopen that also sends what the page has drawn so far
onopenResends(s) ==
  /\ conn[s] = "connecting"
  /\ conn' = [conn EXCEPT ![s] = "open"]
  /\ LET c == owner[s]
         st == [cl[c] EXCEPT !.connected = TRUE]
         hello == send(c, st, conn', "hello", NoFeature, NoId)
         presence == send(c, hello, conn', "presence", NoFeature, NoId)
         resent == IF presence.drawn = <<>> THEN presence
                   ELSE sendAdd(c, presence, conn', 1)
     IN Return(c, renderPresence(c, resent), RelayState, conn')
  /\ relayIdle /\ UNCHANGED <<closeDone, owner, ops>>

\* ws.onopen: connected = true; send('hello'); send('presence'); renderPresence
onopen(s) ==
  /\ conn[s] = "connecting"
  /\ conn' = [conn EXCEPT ![s] = "open"]
  /\ LET c == owner[s]
         st == [cl[c] EXCEPT !.connected = TRUE]
         hello == send(c, st, conn', "hello", NoFeature, NoId)
         presence == send(c, hello, conn', "presence", NoFeature, NoId)
     IN Return(c, renderPresence(c, presence), RelayState, conn')
  /\ relayIdle /\ UNCHANGED <<closeDone, owner, ops>>

onmessage(s) ==
  /\ conn[s] = "open"
  /\ inbox[s] # <<>>
  /\ LET c == owner[s]
         msg == Head(inbox[s])
         taken == [RelayState EXCEPT !.inbox[s] = Tail(@)]
     IN Return(c, wsOnmessage(c, cl[c], msg), taken, conn)
  /\ relayIdle /\ netIdle /\ UNCHANGED ops

\* a close handler that leaves the registry alone
oncloseKeepsPeers(s) ==
  /\ conn[s] \in {"closing", "aborted"}
  /\ conn' = [conn EXCEPT ![s] = "closed"]
  /\ closeDone' = IF conn[s] = "aborted" THEN closeDone \cup {s} ELSE closeDone
  /\ LET c == owner[s]
     IN cl' = [cl EXCEPT ![c].connected = FALSE]
  /\ relayIdle /\ roomsIdle /\ UNCHANGED <<owner, inbox, ops>>

\* ws.onclose: connected = false, every participant but the page's own is
\* deleted, renderPresence
onclose(s) ==
  /\ conn[s] \in {"closing", "aborted"}
  /\ conn' = [conn EXCEPT ![s] = "closed"]
  /\ closeDone' = IF conn[s] = "aborted" THEN closeDone \cup {s} ELSE closeDone
  /\ LET c == owner[s]
     IN cl' = [cl EXCEPT ![c].connected = FALSE,
                         ![c].participants = {c}]
  /\ relayIdle /\ roomsIdle /\ UNCHANGED <<owner, inbox, ops>>

\* the network or the relay's container ends an open transport
TransportDrop(s) ==
  /\ UserOp
  /\ conn[s] = "open"
  /\ conn' = [conn EXCEPT ![s] = "closing"]
  /\ inbox' = [inbox EXCEPT ![s] = <<>>]
  /\ relayIdle /\ roomsIdle /\ UNCHANGED <<closeDone, cl, owner>>

\* the connection of an open transport fails (it is lost, or the peer
\* breaks the protocol)
TransportFail(s) ==
  /\ UserOp
  /\ conn[s] = "open"
  /\ conn' = [conn EXCEPT ![s] = "failing"]
  /\ inbox' = [inbox EXCEPT ![s] = <<>>]
  /\ relayIdle /\ roomsIdle /\ UNCHANGED <<closeDone, cl, owner>>

\* an error event that no close event follows
onerrorAlone(s) ==
  /\ conn[s] = "failing"
  /\ conn' = [conn EXCEPT ![s] = "failed"]
  /\ UNCHANGED cl
  /\ relayIdle /\ roomsIdle /\ UNCHANGED <<closeDone, owner, inbox, ops>>

\* the task a failed connection queues: it fires the error event, for which
\* ws.onerror does nothing, and then the close event, for which ws.onclose
\* runs; no other handler runs in between
onerror(s) ==
  /\ conn[s] = "failing"
  /\ conn' = [conn EXCEPT ![s] = "failed"]
  /\ LET c == owner[s]
     IN cl' = [cl EXCEPT ![c].connected = FALSE,
                         ![c].participants = {c}]
  /\ relayIdle /\ roomsIdle /\ UNCHANGED <<closeDone, owner, inbox, ops>>

\* Geoman finished a shape: the create handler, the collab hook, the history hook
pmCreate(c, kind) ==
  /\ UserOp
  /\ LET i == Len(cl[c].drawn) + 1
         layer == [id |-> NoId, kind |-> kind, geom |-> AsDrawn, style |-> NoStyle,
                   label |-> NoLabel, feat |-> FALSE, pid |-> NoId,
                   born |-> NoId, onMap |-> TRUE]
         attached == ensureLayerId(c, [cl[c] EXCEPT !.drawn = Append(@, layer)], i)
         styled == IF kind = "Point" THEN setMarkerIcon(attached, i)
                   ELSE applyStyle(attached, i)
         created == selectLayer(styled, i)
         sent == IF created.connected THEN sendAdd(c, created, conn, i)
                 ELSE created
     IN Return(c, snapshot(sent), RelayState, conn)
  /\ relayIdle /\ netIdle

endFreehand(c) ==
  /\ UserOp
  /\ LET i == Len(cl[c].drawn) + 1
         line == [id |-> NoId, kind |-> "LineString", geom |-> AsDrawn,
                  style |-> NoStyle, label |-> NoLabel, feat |-> FALSE,
                  pid |-> NoId, born |-> NoId, onMap |-> TRUE]
         attached == [cl[c] EXCEPT !.drawn = Append(@, line)]
     IN Return(c, snapshot(selectLayer(applyStyle(attached, i), i)),
               RelayState, conn)
  /\ relayIdle /\ netIdle

\* Geoman moved a vertex or dragged the layer: pm:edit / pm:dragend
pmEdit(c, i) ==
  /\ UserOp
  /\ i \in 1..Len(cl[c].drawn) /\ cl[c].drawn[i].onMap
  /\ LET edited == [cl[c] EXCEPT !.drawn[i].geom = OtherGeom(@)]
         sent == IF edited.connected THEN sendEdit(c, edited, conn, i)
                 ELSE edited
     IN Return(c, snapshot(sent), RelayState, conn)
  /\ relayIdle /\ netIdle

\* Geoman took the layer off the map; whether it also left the `drawn`
\* group is Geoman's doing (kept: it did not)
pmRemove(c, i, kept) ==
  /\ UserOp
  /\ i \in 1..Len(cl[c].drawn) /\ cl[c].drawn[i].onMap
  /\ LET removed == IF kept THEN [cl[c] EXCEPT !.drawn[i].onMap = FALSE]
                    ELSE [cl[c] EXCEPT !.drawn = RemoveAt(@, i),
                                       !.selected = SelectedAfterRemove(@, i)]
         sent == IF removed.connected
                 THEN sendRemove(c, removed, conn, cl[c].drawn[i])
                 ELSE removed
     IN Return(c, snapshot(sent), RelayState, conn)
  /\ relayIdle /\ netIdle

click(c, i) ==
  /\ UserOp
  /\ i \in 1..Len(cl[c].drawn) /\ cl[c].drawn[i].onMap
  /\ cl[c].selected # i
  /\ Return(c, selectLayer(cl[c], i), RelayState, conn)
  /\ relayIdle /\ netIdle

\* the layer a style handler works on, 0 when it is not in the store
SelectedIndex(st) == IF st.selected \in 1..Len(st.drawn) THEN st.selected ELSE 0

\* a style control changes: its input handler, then change -> scheduleSnapshot
styleInput(c, ctl, v) ==
  /\ UserOp
  /\ v # (IF ctl = "markerIcon" THEN cl[c].ui.icon ELSE cl[c].ui.stroke)
  /\ LET set == IF ctl = "markerIcon" THEN [cl[c] EXCEPT !.ui.icon = v]
                ELSE [cl[c] EXCEPT !.ui.stroke = v]
         i == SelectedIndex(set)
         applied == IF i = 0 THEN set
                    ELSE IF IsPolyline(set.drawn[i].kind) THEN applyStyle(set, i)
                    ELSE IF ctl = "markerIcon" THEN setMarkerIcon(set, i)
                    ELSE set
     IN Return(c, [applied EXCEPT !.timer = TRUE], RelayState, conn)
  /\ relayIdle /\ netIdle

\* the callback of scheduleSnapshot's timeout: snapshot()
timerFired(st) == snapshot([st EXCEPT !.timer = FALSE])

snapshotTimer(c) ==
  /\ cl[c].timer
  /\ Return(c, timerFired(cl[c]), RelayState, conn)
  /\ relayIdle /\ netIdle /\ UNCHANGED ops

applyTextClick(c) ==
  /\ UserOp
  /\ LET i == SelectedIndex(cl[c])
         applied == IF i = 0 THEN cl[c]
                    ELSE setMarkerIcon(applyStyle(cl[c], i), i)
     IN Return(c, snapshot(applied), RelayState, conn)
  /\ relayIdle /\ netIdle

undoClick(c) ==
  /\ UserOp
  /\ canUndo(cl[c])
  /\ Return(c, undo(c, cl[c]), RelayState, conn)
  /\ relayIdle /\ netIdle

redoClick(c) ==
  /\ UserOp
  /\ canRedo(cl[c])
  /\ Return(c, redo(c, cl[c]), RelayState, conn)
  /\ relayIdle /\ netIdle

CollabNext ==
  \/ \E c \in Clients :
       \/ \E r \in RoomNames : connect(c, r)
       \/ disconnect(c)
       \/ \E kind \in PmKinds : pmCreate(c, kind)
       \/ endFreehand(c)
       \/ \E i \in 1..MaxOps : pmEdit(c, i)
       \/ \E i \in 1..MaxOps, kept \in BOOLEAN : pmRemove(c, i, kept)
       \/ \E i \in 1..MaxOps : click(c, i)
       \/ \E ctl \in Controls, v \in Styles : styleInput(c, ctl, v)
       \/ snapshotTimer(c)
       \/ applyTextClick(c)
       \/ undoClick(c)
       \/ redoClick(c)
  \/ \E s \in Sessions :
       \/ onopen(s)
       \/ onmessage(s)
       \/ onclose(s)
       \/ TransportDrop(s)
       \/ TransportFail(s)
       \/ onerror(s)
       \/ relayClosed(s)

SpecCollab == CollabInit /\ [][CollabNext]_vars

\* --------------------------------------------- client: messages of a peer
\* The page of one participant, connected, and a peer that runs other
\* software: what the transport delivers is any message, in any order.

Observer == 1                   \* the participant whose page is looked at
Peer == 3                       \* user.id of the peer

PeerId == <<Peer, 1>>           \* an `_id` the peer made

\* what the peer draws, and what it makes of it by an edit
PeerDraws ==
  [kind : PmKinds, geom : {AsDrawn}, style : {DefaultStroke}, id : {PeerId},
   label : {NoLabel}]

PeerEdits ==
  [kind : PmKinds, geom : {OtherGeom(AsDrawn)}, style : Styles \ {DefaultStroke},
   id : {PeerId}, label : {NoLabel}]

\* an edit whose properties carry no `_id`
Anonymous ==
  [kind |-> "Polygon", geom |-> OtherGeom(AsDrawn),
   style |-> CHOOSE v \in Styles : v # DefaultStroke, id |-> NoId,
   label |-> NoLabel]

\* a feature whose label is a number
Malformed ==
  [kind |-> "Polygon", geom |-> AsDrawn, style |-> DefaultStroke, id |-> PeerId,
   label |-> NotText]

Envelope(type, room, user, feature, id) ==
  [type |-> type, room |-> room, user |-> user, feature |-> feature, id |-> id]

InboundMessages ==
  {Envelope("feature:add", DefaultRoom, Peer, f, NoId) :
     f \in PeerDraws \cup {Malformed}}
  \cup {Envelope("feature:edit", DefaultRoom, Peer, f, NoId) :
          f \in PeerEdits \cup {Anonymous}}
  \cup {Envelope("feature:remove", DefaultRoom, Peer, NoFeature, PeerId)}
  \cup {Envelope("hello", r, u, NoFeature, NoId) :
          r \in RoomNames \cup {Absent, EmptyRoom},
          u \in {Peer, Observer, None}}

\* the page after connect() and onopen: hello and presence sent, their echoes
\* dropped by ws.onmessage; ops counts the gestures from here on
InboundInit ==
  LET net == [s \in Sessions |-> IF s = Observer THEN "open" ELSE "none"]
      st == [Page EXCEPT !.room = DefaultRoom, !.ws = Observer,
                         !.connected = TRUE]
      hello == send(Observer, st, net, "hello", NoFeature, NoId)
      presence == send(Observer, hello, net, "presence", NoFeature, NoId)
      R == [rooms |-> [r \in RoomNames |-> NoSet],
            heap |-> [i \in SetIds |-> {}],
            sessionRoom |-> [s \in Sessions |-> NoRoom],
            inbox |-> [s \in Sessions |-> <<>>]]
      after == receivedAll(R, net, Observer, presence.out)
  IN /\ conn = net
     /\ rooms = after.rooms
     /\ heap = after.heap
     /\ nextSet = 0
     /\ sessionRoom = after.sessionRoom
     /\ th = [s \in Sessions |-> Idle]
     /\ total = 0
     /\ spoke = [s \in Sessions |-> NoRoom]
     /\ closeDone = {}
     /\ cl = [c \in Clients |->
                IF c = Observer
                THEN [renderPresence(Observer, presence) EXCEPT !.out = <<>>]
                ELSE Page]
     /\ owner = [s \in Sessions |-> IF s = Observer THEN Observer ELSE None]
     /\ inbox = [s \in Sessions |-> <<>>]
     /\ ops = 0

\* the transport delivers a message of the peer and ws.onmessage runs; total
\* counts the peer's messages
peerMessage(s, m) ==
  /\ conn[s] = "open"
  /\ inbox[s] = <<>>
  /\ total < MaxMsgs
  /\ total' = total + 1
  /\ Return(owner[s], wsOnmessage(owner[s], cl[owner[s]], m), RelayState, conn)
  /\ netIdle /\ UNCHANGED <<nextSet, th, spoke, ops>>

InboundNext ==
  \/ \E m \in InboundMessages : peerMessage(Observer, m)
  \/ onmessage(Observer)
  \/ pmCreate(Observer, "Polygon")
  \/ undoClick(Observer)
  \/ redoClick(Observer)
  \/ TransportDrop(Observer)
  \/ onclose(Observer)

SpecInbound == InboundInit /\ [][InboundNext]_vars

\* ------------------------------------------------- client: a long history
\* One page, not connected, whose history already holds the commits of a
\* session: initHistory's snapshot of the empty store and one more for every
\* press of "apply text" since (nothing is drawn yet).

StackSizes == {1, HISTORY_LIMIT - 1, HISTORY_LIMIT}

HistoryInit ==
  /\ conn = [s \in Sessions |-> "none"]
  /\ rooms = [r \in RoomNames |-> NoSet]
  /\ heap = [i \in SetIds |-> {}]
  /\ nextSet = 0
  /\ sessionRoom = [s \in Sessions |-> NoRoom]
  /\ th = [s \in Sessions |-> Idle]
  /\ total = 0
  /\ spoke = [s \in Sessions |-> NoRoom]
  /\ closeDone = {}
  /\ \E n \in StackSizes :
       cl = [c \in Clients |->
               IF c = Observer
               THEN [Page EXCEPT !.undoStack = [k \in 1..n |-> <<>>]]
               ELSE Page]
  /\ owner = [s \in Sessions |-> None]
  /\ inbox = [s \in Sessions |-> <<>>]
  /\ ops = 0

\* keydown: Ctrl+Z calls undo(), Ctrl+Y or Ctrl+Shift+Z calls redo(); unlike
\* the buttons, the keys are never disabled
keydown(c, key) ==
  /\ UserOp
  /\ Return(c, IF key = "z" THEN undo(c, cl[c]) ELSE redo(c, cl[c]),
            RelayState, conn)
  /\ relayIdle /\ netIdle

HistoryNext ==
  \/ \E kind \in PmKinds : pmCreate(Observer, kind)
  \/ \E i \in 1..MaxOps : pmEdit(Observer, i)
  \/ \E ctl \in Controls, v \in Styles : styleInput(Observer, ctl, v)
  \/ snapshotTimer(Observer)
  \/ applyTextClick(Observer)
  \/ undoClick(Observer)
  \/ redoClick(Observer)
  \/ \E key \in {"z", "y"} : keydown(Observer, key)

SpecHistory == HistoryInit /\ [][HistoryNext]_vars

\* ------------------------------------------------------------ client: claims

\* the client's socket is open and its onopen has run
Online(c) ==
  /\ cl[c].connected
  /\ cl[c].ws # None
  /\ conn[cl[c].ws] = "open"

\* what the relay queued for session s in this step, when s dequeued nothing:
\* a client's own messages come back to it on its open transport
Emitted(s) == SubSeq(inbox'[s], Len(inbox[s]) + 1, Len(inbox'[s]))

\* C7: echo suppression.  In the step in which a client's onmessage hands an
\* inbound feature:add, feature:edit or feature:remove to handle(), the client
\* sends nothing (the relay receives nothing: its rooms are unchanged and no
\* inbox grows) and its undoStack and redoStack are what they were.
EchoSuppression ==
  [][\A s \in Sessions :
       (onmessage(s) /\ Head(inbox[s]).type \in FeatureTypes)
         => /\ cl'[owner[s]].undoStack = cl[owner[s]].undoStack
            /\ cl'[owner[s]].redoStack = cl[owner[s]].redoStack
            /\ inbox' = [inbox EXCEPT ![s] = Tail(@)]
            /\ UNCHANGED <<rooms, heap, sessionRoom>>]_vars

\* a peer's feature is in a client's store and the client's history still
\* holds the initial snapshot only
EchoSuppressionWitness ==
  \E c \in Clients :
    /\ Len(cl[c].undoStack) = 1
    /\ \E i \in 1..Len(cl[c].drawn) :
         cl[c].drawn[i].id # NoId /\ cl[c].drawn[i].id[1] # c

\* C8: identifier stability.  A stored feature whose identifier was once
\* assigned (born) still has that identifier, whatever happened since:
\* commits, undo and redo restores included.
IdentifierStable ==
  \A c \in Clients : \A i \in 1..Len(cl[c].drawn) :
    cl[c].drawn[i].born # NoId => cl[c].drawn[i].id = cl[c].drawn[i].born

\* C9: style edit propagation.  When an online client changes the stroke
\* colour while a stored line or polygon with identifier x is selected, the
\* step emits a feature:edit for x that carries the new style.
StyleEditPropagates ==
  [][\A c \in Clients, v \in Styles :
       ( /\ styleInput(c, "strokeColor", v)
         /\ Online(c)
         /\ SelectedIndex(cl[c]) # 0
         /\ IsPolyline(cl[c].drawn[SelectedIndex(cl[c])].kind)
         /\ cl[c].drawn[SelectedIndex(cl[c])].id # NoId )
         => \E k \in 1..Len(Emitted(cl[c].ws)) :
              /\ Emitted(cl[c].ws)[k].type = "feature:edit"
              /\ Emitted(cl[c].ws)[k].feature.id
                   = cl[c].drawn[SelectedIndex(cl[c])].id
              /\ Emitted(cl[c].ws)[k].feature.style = v]_vars

\* the step creates a feature in c's store by a local gesture
CreatesLocally(c) ==
  \/ \E kind \in PmKinds : pmCreate(c, kind)
  \/ endFreehand(c)

Newest(st) == st.drawn[Len(st.drawn)]

\* C10: add propagation.  When an online client creates a feature locally,
\* the step emits exactly one message, a feature:add with the identifier
\* assigned to the new feature and its geometry; and when a peer's onmessage
\* applies a feature:add of its room, the peer's store afterwards holds a
\* feature with the message's identifier and geometry.
AddPropagates ==
  [][/\ \A c \in Clients :
          (CreatesLocally(c) /\ Online(c))
            => /\ Newest(cl'[c]).id # NoId
               /\ Len(Emitted(cl[c].ws)) = 1
               /\ Emitted(cl[c].ws)[1].type = "feature:add"
               /\ Emitted(cl[c].ws)[1].feature.id = Newest(cl'[c]).id
               /\ Emitted(cl[c].ws)[1].feature.geom = Newest(cl'[c]).geom
     /\ \A s \in Sessions :
          ( /\ onmessage(s)
            /\ Head(inbox[s]).type = "feature:add"
            /\ Head(inbox[s]).room = cl[owner[s]].room
            /\ Head(inbox[s]).user # owner[s] )
            => \E i \in 1..Len(cl'[owner[s]].drawn) :
                 /\ cl'[owner[s]].drawn[i].id = Head(inbox[s]).feature.id
                 /\ cl'[owner[s]].drawn[i].geom = Head(inbox[s]).feature.geom]_vars

\* the store after the page has taken a message of the peer
Delivered(m) == peerMessage(Observer, m)

\* C11: remove.  When the page applies a peer's feature:remove for identifier
\* x, its store afterwards is its store before without the features of
\* identifier x: none with identifier x is left, every other feature is as it
\* was and in its place, and a store without x is unchanged.
RemoveApplied ==
  [][\A m \in InboundMessages :
       (m.type = "feature:remove" /\ Delivered(m))
         => cl'[Observer].drawn
              = SelectSeq(cl[Observer].drawn, LAMBDA l : l.id # m.id)]_vars

\* the peer's feature:edit messages that ws.onmessage hands to handle()
EditMessages ==
  {m \in InboundMessages : m.type = "feature:edit" /\ m.feature # NoFeature}

EditIdempotent ==
  \A m \in EditMessages :
    LET once == wsOnmessage(Observer, cl[Observer], m)
        twice == wsOnmessage(Observer, once, m)
    IN twice.drawn = once.drawn

\* the identifiers of the stored features
Ids(st) == {st.drawn[i].id : i \in 1..Len(st.drawn)}

\* every stored feature has an identifier and no two have the same
Keyed(st) == NoId \notin Ids(st) /\ Cardinality(Ids(st)) = Len(st.drawn)

\* ws.onmessage hands the message to handle() and handle() applies it as an
\* Add, Edit or Remove
AppliedBy(c, msg) ==
  /\ msg.room \in {Absent, EmptyRoom, cl[c].room}
  /\ msg.user \notin {c, None}
  /\ \/ msg.type \in {"feature:add", "feature:edit"} /\ msg.feature # NoFeature
     \/ msg.type = "feature:remove" /\ msg.id # NoId

\* the live identifiers after the operation of msg, given those before it
LiveAfter(live, now, msg) ==
  IF msg.type = "feature:remove" THEN now = live \ {msg.id}
  ELSE IF msg.feature.id # NoId THEN now = live \cup {msg.feature.id}
  ELSE live \subseteq now /\ Cardinality(now) = Cardinality(live) + 1

\* C14: no duplicates, no orphans.  Whenever the stored features have
\* distinct identifiers, an Add, Edit or Remove (a local gesture or a peer's
\* message) leaves them so, and the identifiers stored afterwards are the
\* live ones: those before, plus the one added, less the one removed.  By
\* induction the store's identifiers are the live identifiers after any
\* sequence of these operations.
NoDuplicatesNoOrphans ==
  [][\A c \in Clients :
       Keyed(cl[c]) =>
         /\ CreatesLocally(c)
              => /\ Keyed(cl'[c])
                 /\ Newest(cl'[c]).id \notin Ids(cl[c])
                 /\ Ids(cl'[c]) = Ids(cl[c]) \cup {Newest(cl'[c]).id}
         /\ \A i \in 1..Len(cl[c].drawn) :
              /\ pmEdit(c, i) => Keyed(cl'[c]) /\ Ids(cl'[c]) = Ids(cl[c])
              /\ (\E kept \in BOOLEAN : pmRemove(c, i, kept))
                   => /\ Keyed(cl'[c])
                      /\ Ids(cl'[c]) = Ids(cl[c]) \ {cl[c].drawn[i].id}
         /\ \A s \in Sessions :
              (onmessage(s) /\ owner[s] = c /\ AppliedBy(c, Head(inbox[s])))
                => /\ Keyed(cl'[c])
                   /\ LiveAfter(Ids(cl[c]), Ids(cl'[c]), Head(inbox[s]))
         /\ \A m \in InboundMessages :
              (c = Observer /\ AppliedBy(c, m) /\ Delivered(m))
                => /\ Keyed(cl'[c])
                   /\ LiveAfter(Ids(cl[c]), Ids(cl'[c]), m)]_vars

Top(stack) == stack[Len(stack)]

\* the store is what the snapshot was taken of: the same features in the same
\* order, each with the identifier, kind, geometry, style and label it had
SameStore(drawn, taken) ==
  /\ Len(drawn) = Len(taken)
  /\ \A i \in 1..Len(taken) :
       /\ drawn[i].id = taken[i].was
       /\ drawn[i].kind = taken[i].kind
       /\ drawn[i].geom = taken[i].geom
       /\ drawn[i].style = taken[i].style
       /\ drawn[i].label = taken[i].label

\* C15: undo/redo round trip.  An undo leaves the store in the state it had
\* at the commit before the last one (the snapshot that is then on top of
\* the undo stack), and a redo leaves it in the state of the commit it puts
\* back on top.
UndoRedoRoundTrip ==
  [][\A c \in Clients :
       (undoClick(c) \/ redoClick(c))
         => SameStore(cl'[c].drawn, Top(cl'[c].undoStack))]_vars

\* C16: inbound filtering.  When the page takes a message whose room (its
\* room field, the default room when it has none) is not the room the page
\* is bound to, or whose user.id is the page's own id, the page is left as
\* it was: participants, store and history stacks unchanged.
InboundFiltering ==
  [][\A m \in InboundMessages :
       ( /\ \/ RoomOf(m) # cl[Observer].room
            \/ m.user = Observer
         /\ Delivered(m) )
         => cl'[Observer] = cl[Observer]]_vars

\* C17: transport close on the client.  In the step in which ws.onclose
\* runs, the page becomes disconnected, its participant registry is left
\* with the page's own entry only, and its feature store is what it was.
TransportCloseOnClient ==
  [][\A s \in Sessions :
       onclose(s)
         => /\ ~cl'[owner[s]].connected
            /\ cl'[owner[s]].participants = {owner[s]}
            /\ cl'[owner[s]].drawn = cl[owner[s]].drawn]_vars

\* the page's transport has closed, the peer is gone from the registry and
\* a feature the peer added is still in the store
TransportCloseWitness ==
  /\ conn[Observer] = "closed"
  /\ ~cl[Observer].connected
  /\ cl[Observer].participants = {Observer}
  /\ \E i \in 1..Len(cl[Observer].drawn) : cl[Observer].drawn[i].id = PeerId

\* C18: snapshot restore failure.  When the restore of an undo or a redo
\* fails (restoreFromGeoJSON throws on the snapshot it is given), the store
\* afterwards is the store before the undo or redo, and nothing is thrown
\* out of undo() or redo().
RestoreFailureContained ==
  [][\A c \in Clients :
       /\ ( /\ undoClick(c)
            /\ restoreThrows(cl[c].undoStack[Len(cl[c].undoStack) - 1]) )
            => cl'[c].drawn = cl[c].drawn /\ ~undoThrows(cl[c])
       /\ ( /\ redoClick(c)
            /\ restoreThrows(Top(cl[c].redoStack)) )
            => cl'[c].drawn = cl[c].drawn /\ ~redoThrows(cl[c])]_vars

\* C19: guaranteed flag reset.  Between handlers isRemoteApplying and
\* isRestoring are false on every page, whatever the handlers before have
\* done: a remote apply or a restore that threw included.
FlagsReset ==
  \A c \in Clients : ~cl[c].isRemoteApplying /\ ~cl[c].isRestoring

\* an undo has restored a snapshot that holds the label no tooltip renders:
\* the remote apply that stored the feature threw, and so did the restore
FlagsResetWitness ==
  /\ canRedo(cl[Observer])
  /\ restoreThrows(Top(cl[Observer].undoStack))
  /\ \E i \in 1..Len(cl[Observer].drawn) :
       bindTooltipThrows(cl[Observer].drawn[i].label)
  /\ FlagsReset

\* C20: remote edit overwrite.  When the page applies a peer's feature:edit
\* for an identifier a stored feature has, that feature (the one
\* findLayerById returns) afterwards has the geometry, the style and the
\* label of the message, whatever its kind and whatever it had before.
RemoteEditOverwrites ==
  [][\A m \in EditMessages :
       ( /\ m.feature.id # NoId
         /\ findLayerById(cl[Observer], m.feature.id) # 0
         /\ Delivered(m) )
         => LET i == findLayerById(cl[Observer], m.feature.id)
            IN /\ Len(cl'[Observer].drawn) = Len(cl[Observer].drawn)
               /\ cl'[Observer].drawn[i].geom = m.feature.geom
               /\ cl'[Observer].drawn[i].style = m.feature.style
               /\ cl'[Observer].drawn[i].label = m.feature.label]_vars

\* the step runs snapshot() on c's page outside a restore
Commits(c) ==
  \/ \E kind \in PmKinds : pmCreate(c, kind)
  \/ endFreehand(c)
  \/ \E i \in 1..Len(cl[c].drawn) : pmEdit(c, i)
  \/ \E i \in 1..Len(cl[c].drawn), kept \in BOOLEAN : pmRemove(c, i, kept)
  \/ snapshotTimer(c)
  \/ applyTextClick(c)

\* C21: commit.  A step that commits leaves the undo stack as it was plus
\* one snapshot on top, which is the snapshot of the whole store as the step
\* leaves it, less the oldest snapshot when the stack was full, and leaves
\* the redo stack empty; and the undo stack never holds more than
\* HISTORY_LIMIT snapshots.
CommitBounded ==
  /\ [](\A c \in Clients : Len(cl[c].undoStack) <= HISTORY_LIMIT)
  /\ [][\A c \in Clients :
          Commits(c)
            => /\ cl'[c].redoStack = <<>>
               /\ Top(cl'[c].undoStack) = collectGeoJSON(cl'[c])
               /\ cl'[c].undoStack
                    = Append(IF Len(cl[c].undoStack) = HISTORY_LIMIT
                             THEN Tail(cl[c].undoStack) ELSE cl[c].undoStack,
                             Top(cl'[c].undoStack))]_vars

\* the history is full and its two newest snapshots are of a store that
\* holds a feature: two commits have each discarded the oldest snapshot
CommitBoundedWitness ==
  /\ Len(cl[Observer].undoStack) = HISTORY_LIMIT
  /\ Len(cl[Observer].undoStack[HISTORY_LIMIT]) > 0
  /\ Len(cl[Observer].undoStack[HISTORY_LIMIT - 1]) > 0
  /\ cl[Observer].undoStack[HISTORY_LIMIT - 2] = <<>>

\* C22: nothing to undo, nothing to redo.  When undo() is called with fewer
\* than two snapshots on the undo stack, or redo() with an empty redo stack,
\* the page is left as it was: undo stack, redo stack and feature store (and
\* everything else on the page) unchanged.
NothingToUndo ==
  [][\A c \in Clients :
       /\ (Len(cl[c].undoStack) < 2 /\ keydown(c, "z")) => cl'[c] = cl[c]
       /\ (cl[c].redoStack = <<>> /\ keydown(c, "y")) => cl'[c] = cl[c]]_vars

\* three gestures in all, of which one was a commit and one its undo: the
\* third was a Ctrl+Z with the initial snapshot alone on the undo stack
NothingToUndoWitness ==
  /\ ops = 3
  /\ Len(cl[Observer].undoStack) = 1
  /\ Len(cl[Observer].redoStack) = 1
  /\ cl[Observer].ui = Page.ui

\* C23: restore is local.  In the step of an undo the relay receives nothing
\* (no inbox grows, the rooms are as they were) and the page's undo stack is
\* what it was less its top, which is now the top of its redo stack; in the
\* step of a redo the relay receives nothing either and the top of the redo
\* stack has moved back on the undo stack.  Nothing else changes in either
\* stack: no snapshot is created.
RestoreIsLocal ==
  [][\A c \in Clients :
       /\ (canUndo(cl[c]) /\ undoClick(c))
            => /\ inbox' = inbox
               /\ UNCHANGED <<rooms, heap, sessionRoom>>
               /\ cl'[c].undoStack
                    = SubSeq(cl[c].undoStack, 1, Len(cl[c].undoStack) - 1)
               /\ cl'[c].redoStack
                    = Append(cl[c].redoStack, Top(cl[c].undoStack))
       /\ (canRedo(cl[c]) /\ redoClick(c))
            => /\ inbox' = inbox
               /\ UNCHANGED <<rooms, heap, sessionRoom>>
               /\ cl'[c].redoStack
                    = SubSeq(cl[c].redoStack, 1, Len(cl[c].redoStack) - 1)
               /\ cl'[c].undoStack
                    = Append(cl[c].undoStack, Top(cl[c].redoStack))]_vars

\* a page that is online and joined to its room at the relay has undone the
\* commit of the one feature it drew
RestoreIsLocalWitness ==
  \E c \in Clients :
    /\ Online(c)
    /\ sessionRoom[cl[c].ws] = cl[c].room
    /\ canRedo(cl[c])
    /\ cl[c].drawn = <<>>

\* C24: disconnect stops remote application.  From disconnect() until the
\* next connect() the page has no transport (ws = null); in that time no
\* step other than a gesture of the user changes its feature store or adds
\* a peer to its participant registry: no message event, whether the message was
\* received before or after the close, is applied.
DisconnectStops ==
  [][\A c \in Clients :
       (cl[c].ws = None /\ cl'[c].ws = None /\ ops' = ops)
         => /\ cl'[c].drawn = cl[c].drawn
            /\ cl'[c].participants \subseteq cl[c].participants \cup {c}]_vars

\* a page has disconnected from a room in which a peer is online, and the
\* peer is not in its registry
DisconnectStopsWitness ==
  \E c \in Clients, s \in Sessions :
    /\ cl[c].ws = None /\ ~cl[c].connected
    /\ owner[s] = c /\ conn[s] \in {"closing", "closed"}
    /\ \E d \in Clients :
         /\ d # c /\ Online(d) /\ cl[d].room = cl[c].room
         /\ d \notin cl[c].participants

\* C25: transport error on the client.  When the transport of a page
\* reports an error, the page is disconnected afterwards: isConnected() is
\* false once the task that fired the error event has run.
TransportError ==
  [][\A s \in Sessions :
       (conn[s] = "failing" /\ onerror(s)) => ~cl'[owner[s]].connected]_vars

\* the transport a page was online on has failed, and the page, which still
\* holds that socket, is disconnected
TransportErrorWitness ==
  \E c \in Clients :
    /\ cl[c].ws # None
    /\ conn[cl[c].ws] = "failed"
    /\ ~cl[c].connected
    /\ cl[c].participants = {c}

\* C26: malformed message at the relay.  When handleTextMessage is given a
\* message that does not parse, nothing is thrown, no broadcast is started
\* (the handler has returned), rooms, the session sets and sessionRoom are
\* unchanged and the sending session is still open.
MalformedDropped ==
  [][\A s \in Sessions, m \in Messages :
       (~m.ok /\ handleTextMessage(s, m))
         => /\ ~readTreeThrows(m)
            /\ th'[s] = Idle
            /\ UNCHANGED <<rooms, heap, sessionRoom>>
            /\ conn'[s] = "open"]_vars

\* the messages of client c that the relay takes in this step
SentBy(c) ==
  UNION {{Emitted(t)[k] : k \in {j \in 1..Len(Emitted(t)) : Emitted(t)[j].user = c}}
           : t \in Sessions}

\* C27: send while not connected.  In a step that begins with page c not
\* connected, whatever the page does (a gesture that draws, edits or removes
\* a feature included), the relay takes no message of c; except in the step
\* of ws.onopen, where it takes c's hello and presence and nothing else:
\* nothing that c tried to send earlier is transmitted on connecting.
OfflineSendDropped ==
  [][\A c \in Clients :
       ~cl[c].connected
         => \A msg \in SentBy(c) :
              /\ cl'[c].connected
              /\ msg.type \in {"hello", "presence"}]_vars

\* a page has drawn a feature while not connected and has connected since:
\* the relay has sent it the echo of its hello and presence, and no more
OfflineSendDroppedWitness ==
  \E c \in Clients :
    /\ Online(c)
    /\ Len(cl[c].drawn) > 0
    /\ Len(inbox[cl[c].ws]) = 2
    /\ inbox[cl[c].ws][1].type = "hello"
    /\ inbox[cl[c].ws][2].type = "presence"

\* C28: hello and presence first.  When the transport s of a page opens, the
\* relay has had no message on s yet (s is in no room), and in the step of
\* ws.onopen it takes exactly two: a hello and then a presence, each with
\* the page's room and the page's own id.  A cursor, view or feature message
\* on s can only come after them.
HelloPresenceFirst ==
  [][\A s \in Sessions :
       (conn[s] = "connecting" /\ onopen(s))
         => /\ sessionRoom[s] = NoRoom
            /\ cl'[owner[s]].connected
            /\ Emitted(s)
                 = << Envelope("hello", cl[owner[s]].room, owner[s],
                               NoFeature, NoId),
                      Envelope("presence", cl[owner[s]].room, owner[s],
                               NoFeature, NoId) >>]_vars

\* a page is online in the room it named, and what the relay has sent back
\* on its transport so far is its hello and its presence
HelloPresenceFirstWitness ==
  \E c \in Clients :
    /\ Online(c)
    /\ sessionRoom[cl[c].ws] = cl[c].room
    /\ Len(inbox[cl[c].ws]) = 2
    /\ inbox[cl[c].ws][1].type = "hello" /\ inbox[cl[c].ws][1].user = c
    /\ inbox[cl[c].ws][2].type = "presence" /\ inbox[cl[c].ws][2].user = c
    /\ inbox[cl[c].ws][1].room = cl[c].room

\* C29: relay membership consistency.  Whenever no handler is in the middle
\* of handleTextMessage or afterConnectionClosed, every session that
\* sessionRoom binds to a room R is a member of the set stored at rooms[R].
MembershipConsistent ==
  (\A s \in Sessions : th[s].pc = "idle")
    => \A s \in Sessions :
         sessionRoom[s] # NoRoom => s \in Members(rooms[sessionRoom[s]])

\* the transport the page holds is open as the page sees it: a transport the
\* network has ended stays so until its close (or error) event is dispatched
HoldsOpen(c) ==
  /\ cl[c].ws # None
  /\ conn[cl[c].ws] \in {"open", "closing", "failing"}

\* C30: connection flag under reconnect.  isConnected() is true exactly when
\* the transport created last is open; and the close event of a transport
\* that has been replaced, running while the newer transport is open, leaves
\* the page connected and its participant registry as it was.
ConnectedIffOpen ==
  /\ [](\A c \in Clients : cl[c].connected <=> HoldsOpen(c))
  /\ [][\A s \in Sessions :
          ( /\ owner[s] # None
            /\ cl[owner[s]].ws \notin {None, s}
            /\ conn[cl[owner[s]].ws] = "open"
            /\ onclose(s) )
            => /\ cl'[owner[s]].connected
               /\ cl'[owner[s]].participants = cl[owner[s]].participants]_vars

\* a feature of the peer is in the store and not in the snapshot of the last
\* commit: a remote message has been applied since
RemoteSinceCommit(st) ==
  \E i \in 1..Len(st.drawn) :
    /\ st.drawn[i].id = PeerId
    /\ \A k \in 1..Len(Top(st.undoStack)) : Top(st.undoStack)[k].pid # PeerId

\* the same features in the same order: kind, geometry, style and label
\* (identifiers apart, which a restore renews for what was drawn locally)
SameFeatures(a, b) ==
  /\ Len(a) = Len(b)
  /\ \A i \in 1..Len(a) :
       /\ a[i].kind = b[i].kind
       /\ a[i].geom = b[i].geom
       /\ a[i].style = b[i].style
       /\ a[i].label = b[i].label

\* C31: undo then redo with remote updates.  For every state of the page in
\* which a peer's feature has been applied since the last commit and an undo
\* is possible, undo() followed at once by redo() (neither restore failing)
\* leaves the store with the features it had before the undo, the peer's
\* included.
RemoteSurvivesUndoRedo ==
  LET st == cl[Observer]
      back == redo(Observer, undo(Observer, st))
  IN ( /\ canUndo(st)
       /\ RemoteSinceCommit(st)
       /\ ~undoThrows(st)
       /\ ~restoreThrows(Top(st.undoStack)) )
       => SameFeatures(back.drawn, st.drawn)

\* C32: debounced commit versus undo.  For every state of a page in which
\* the timer of scheduleSnapshot is pending and an undo is possible: when
\* undo() runs and then the timer fires, the stacks are as the undo left
\* them: the redo stack still holds the snapshot the undo moved there
\* (canRedo() is true) and nothing has been pushed on the undo stack.
DebounceKeepsRedo ==
  \A c \in Clients :
    LET undone == undo(c, cl[c])
        fired == timerFired(undone)
    IN (cl[c].timer /\ canUndo(cl[c]) /\ ~undoThrows(cl[c]))
         => /\ canRedo(fired)
            /\ fired.redoStack = undone.redoStack
            /\ fired.undoStack = undone.undoStack
====
